---- MODULE Spec2Model ----
(***************************************************************************)
(* The OpenBench worker (Client/Client.py): the polling loop of main, one  *)
(* workload's verification of its two engines, the launch of the match     *)
(* runner (cutechess) and the processing of the runner's output with the   *)
(* delta reports sent to the server.                                       *)
(*                                                                         *)
(* A number that Python holds as a float or an int (a nodes-per-second     *)
(* average) is the rational <<numerator, denominator>>; Python's None is   *)
(* the empty tuple.                                                        *)
(*                                                                         *)
(* Spec            the worker's loop, with the runner's output read line   *)
(*                 by line; the engines' binaries are taken as given.      *)
(* SpecLossy       the same, with a runner that can print empty lines and  *)
(*                 a network that can lose the reply to a delivered POST.  *)
(* SpecProv        the loop with the Engines and tmp directories:          *)
(*                 verifyEngine with getEngine; the match as one step.     *)
(* SpecBenchmark   computeMultiThreadedBenchmark with its lanes as         *)
(*                 concurrent processes.                                   *)
(* SpecTimecontrol computeAdjustedTimecontrol on every time control.       *)
(***************************************************************************)
EXTENDS Integers, Sequences, FiniteSets, TLC

\* Games played for each upload cycle (Client.py line 11).
REPORT_RATE == 5

\* Bounds of the model.  The runner plays at most MaxGames games in one
\* workload (GAMES_PER_TASK is 250), prints at most MaxEvents crash and
\* loss-on-time lines, and a benchmark runs NumLanes lanes (arguments.threads).
MaxGames == 10
MaxEvents == 2
NumLanes == 2

\* A commit's archive is downloaded at most MaxFetches times.
MaxFetches == 2

\* A time control has at most MaxSeps separators '/' and '+'.
MaxSeps == 2

None == <<>>

Engines == {"dev", "base"}

\* engine['bench'] of a workload: the declared bench count of an engine.
ExpectedBenches == {0, 1}

\* What one benchmark lane puts on the queue: (bench, nps).  (0, 0) is what a
\* lane that could not run or parse the benchmark puts (line 214).
LaneSamples == {<<0, 0>>, <<1, 2>>, <<1, 4>>, <<2, 2>>}

\* engine['sha'] of a workload: the commit hash, the key of the built binary.
Shas == {"a", "b"}

\* How a call of getEngine (lines 108-137) ends: an exception of the download,
\* of the extraction or of starting make; or make ends, with the binary under
\* its name with or without .exe, or with neither.
GetEngineOutcomes ==
    {"download raises", "unzip raises", "make raises",
     "built", "built .exe", "no binary"}

\* Texts the server answers a submitResults POST with.
ServerReplies == {"OK", "Stop", "STOP"}

\* The outcome of a POST: the server's text, or an exception of requests.
NetOutcomes == ServerReplies \cup {"exception"}

\* The exception of requests can also come after the server has the request:
\* the reply is lost, or later than the timeout of line 367.
LossyOutcomes == NetOutcomes \cup {"reply lost"}

\* Lines 381 and 397: a line that decode('ascii') does not take, and a line
\* with 'Score of' whose text after the colon is not three numbers.
BadLines == {"undecodable", "malformed score"}

VARIABLES
    pc,          \* where the worker is: the polling loop, a workload's steps
    exitCause,   \* why the worker process ended ("none" while it runs)
    expected,    \* data['test'][e]['bench'] of the workload, per engine
    nps,         \* devnps / basenps of processWorkload (None: invalid bench)
    laneData,    \* history: the samples the lanes of engine e reported
    benchResult, \* history: what computeMultiThreadedBenchmark returned for e
    notified,    \* history: a wrongBench POST was made for engine e
    npsReported, \* history: the submitNPS POST of the workload was made
    shas,        \* data['test'][e]['sha'] of the workload, per engine
    provided,    \* history: how getEngine ended for engine e ("none": no call)
    binaries,    \* the commits with a binary Engines/<sha>
    tmp,         \* the scratch directory tmp exists
    fetches,     \* history: downloads of a commit's archive, per commit
    builds,      \* history: runs of make for a commit, per commit
    timecontrol, \* data['test']['timecontrol'], as fields and separators
    factor,      \* int(data['test']['nps']) / nps, as <<numerator, denominator>>
    adjusted,    \* what computeAdjustedTimecontrol returned, None before
    mainAt,      \* where computeMultiThreadedBenchmark is: start, join, get, done
    lane,        \* per benchmark process: "new", "running", "put", "exited"
    outqueue,    \* the samples on the queue, oldest first
    sample,      \* history: what each lane has put on the queue, None before
    taken,       \* the samples taken from the queue (line 241), None before
    benchOut,    \* what computeMultiThreadedBenchmark returned, None before
    cutechess,   \* the match process: "none", "running", "reaped"
    stdoutOpen,  \* the worker holds the match process's output pipe open
    score,       \* processCutechess: cumulative <<wins, losses, draws>>
    sent,        \* processCutechess: the tally of the last acknowledged report
    crashes,     \* processCutechess: crashes since the last acknowledged report
    timelosses,  \* processCutechess: time losses since that report
    retval,      \* what processCutechess returned ("unset" until it returns)
    acked,       \* history: sum of the deltas the server acknowledged
    totalC,      \* history: crash lines read in this workload
    totalT,      \* history: loss-on-time lines read in this workload
    reported,    \* history: the delta the last step passed to reportResults
                 \*          (<<>> when that step made no report)
    status,      \* history: what reportResults returned to that step
    stopSeen,    \* history: a report of this workload was answered STOP
    ending,      \* history: what ended the reading of the output ("none" before)
    received     \* history: the game results in the reports the server received

mainVars == <<pc, exitCause>>
benchVars == <<expected, nps, laneData, benchResult, notified, npsReported,
               shas, provided>>
fsVars == <<binaries, tmp, fetches, builds>>
tcVars == <<timecontrol, factor, adjusted>>
laneVars == <<mainAt, lane, outqueue, sample, taken, benchOut>>
pureVars == <<tcVars, laneVars>>
procVars == <<cutechess, stdoutOpen>>
streamVars == <<score, sent, crashes, timelosses, retval>>
histVars == <<acked, totalC, totalT, reported, status, stopSeen, ending,
              received>>
vars == <<mainVars, benchVars, fsVars, procVars, streamVars, histVars, pureVars>>

----------------------------------------------------------------------------
\* Arithmetic helpers.

Sum3(t) == t[1] + t[2] + t[3]

RECURSIVE SumSeq(_)
SumSeq(s) == IF s = <<>> THEN 0 ELSE Head(s) + SumSeq(Tail(s))

Zero3 == <<0, 0, 0>>
Zero5 == <<0, 0, 0, 0, 0>>

Add5(a, b) == [i \in 1..5 |-> a[i] + b[i]]

\* str.upper() on the texts of the model.
Upper(s) ==
    CASE s = "Stop" -> "STOP"
      [] s = "Unable" -> "UNABLE"
      [] OTHER -> s

----------------------------------------------------------------------------
\* Benchmark validation: computeMultiThreadedBenchmark and verifyEngine.

\* Lines 241-252 without the comparison of the benches: the first sample's
\* bench is returned.
computeFirstBenchmark(samples) ==
    LET npsl == [i \in 1..Len(samples) |-> samples[i][2]]
    IN  <<samples[1][1], <<SumSeq(npsl), Len(npsl)>>>>

\* Lines 241-252.  data is the queue's content, one sample per lane.  The
\* result is <<bench, nps>>; the average sum(nps) / len(nps) is a rational.
computeMultiThreadedBenchmark(data) ==
    LET bench == [i \in 1..Len(data) |-> data[i][1]]
        npsl == [i \in 1..Len(data) |-> data[i][2]]
        avg == <<SumSeq(npsl), Len(npsl)>>
    IN  IF Cardinality({bench[i] : i \in 1..Len(bench)}) > 1
        THEN <<0, <<0, 1>>>>
        ELSE <<bench[1], avg>>

\* Lines 313-321.  What verifyEngine does with the lanes' samples: the
\* benchmark's result, whether reportWrongBenchmark is called, and the value
\* returned (the nps, or None).
verifyEngine(data, bench) ==
    LET r == computeMultiThreadedBenchmark(data)
    IN  [result |-> r,
         wrong |-> r[1] # bench,
         nps |-> IF r[1] = bench THEN r[2] ELSE None]

\* Line 308 with the cache check left out.
NeedsEngineAlways(sha) == TRUE

\* Line 308: verifyEngine calls getEngine when Engines/<sha> is not a file.
NeedsEngine(sha) == sha \notin binaries

\* Lines 108-137: getEngine for commit sha, ending as out.  The archive is
\* downloaded (line 116) and unzipped into tmp (lines 68-71); make runs in
\* tmp/<name>/src (lines 121-122); an output is moved to Engines/<sha> (lines
\* 129-134); rmtree removes tmp (line 137), which an exception never reaches.
getEngine(sha, out) ==
    LET ran == out \in {"built", "built .exe", "no binary"}
    IN  [binaries |-> IF out \in {"built", "built .exe"}
                      THEN binaries \cup {sha} ELSE binaries,
         tmp |-> IF out = "download raises" THEN tmp ELSE ~ran,
         fetches |-> [fetches EXCEPT ![sha] = @ + 1],
         builds |-> IF ran THEN [builds EXCEPT ![sha] = @ + 1] ELSE builds,
         raised |-> ~ran]

\* Lines 195-214: what the lanes can put on the queue.  Without the binary
\* Popen raises in every lane, and the lane puts (0, 0) (lines 212-214).
LaneOutputs(sha, bins) ==
    IF sha \in bins THEN [1..NumLanes -> LaneSamples]
                    ELSE [1..NumLanes -> {<<0, 0>>}]

\* Line 428: (devnps + basenps) / 2.
AverageNps(d, b) == <<d[1] * b[2] + b[1] * d[2], 2 * d[2] * b[2]>>

----------------------------------------------------------------------------
\* Time controls (lines 254-281).  A time control string is taken as its
\* fields and the separators between them: <<field, sep, field, ...>>.  A field
\* is a number (v, in thousandths of a second or of a move), the empty string,
\* or text float() does not read.

Num(v) == [k |-> "num", v |-> v]
Word == [k |-> "word", v |-> 0]
Empty == [k |-> "empty", v |-> 0]
Slash == [k |-> "/", v |-> 0]
Plus == [k |-> "+", v |-> 0]

Fields == {Empty, Word, Num(40000), Num(60000), Num(500), Num(125)}
Seps == {Slash, Plus}

\* The strings with n separators.
TimecontrolsOf(n) ==
    {t \in [1..(2 * n + 1) -> Fields \cup Seps] :
        \A i \in 1..(2 * n + 1) : (t[i] \in Seps) <=> (i % 2 = 0)}

Timecontrols == UNION {TimecontrolsOf(n) : n \in 0..MaxSeps}

\* int(data['test']['nps']) / nps (line 257): 1, 2, 1/2 and 3/2.
Factors == {<<1, 1>>, <<2, 1>>, <<1, 2>>, <<3, 2>>}

\* c in timecontrol.
Has(tc, c) == \E i \in 1..Len(tc) : tc[i].k = c

Positions(tc, c) == {i \in 1..Len(tc) : tc[i].k = c}
Least(S) == CHOOSE x \in S : \A y \in S : x <= y

\* timecontrol.split(c)[0] and timecontrol.split(c)[1], for c in timecontrol.
Split0(tc, c) == SubSeq(tc, 1, Least(Positions(tc, c)) - 1)
Split1(tc, c) ==
    LET ps == Positions(tc, c)
        rest == ps \ {Least(ps)}
        end == IF rest = {} THEN Len(tc) + 1 ELSE Least(rest)
    IN  SubSeq(tc, Least(ps) + 1, end - 1)

\* start, inc = map(float, part.split('+')) succeeds: two parts, each a
\* number.  float(part) succeeds: one field, a number.
TwoFloats(part) ==
    /\ Len(part) = 3
    /\ part[1].k = "num" /\ part[2].k = "+" /\ part[3].k = "num"
OneFloat(part) == Len(part) = 1 /\ part[1].k = "num"

\* The factor turned upside down: nps / int(data['test']['nps']).
ScaledInverse(v, f) ==
    LET n == v * f[2]
        d == 10 * f[1]
    IN  IF 2 * (n % d) < d THEN {10 * (n \div d)}
        ELSE IF 2 * (n % d) > d THEN {10 * (n \div d + 1)}
        ELSE {10 * (n \div d), 10 * (n \div d + 1)}

\* round(v * factor, 2), in thousandths: the hundredth nearest to the
\* product.  Half-way between two hundredths the binary value of the float
\* decides, so either neighbour can come.
Scaled(v, f) ==
    LET n == v * f[1]
        d == 10 * f[2]
    IN  IF 2 * (n % d) < d THEN {10 * (n \div d)}
        ELSE IF 2 * (n % d) > d THEN {10 * (n \div d + 1)}
        ELSE {10 * (n \div d), 10 * (n \div d + 1)}

ValueError == [raised |-> TRUE, tc |-> <<>>]
Returned(tc) == [raised |-> FALSE, tc |-> tc]

\* Lines 262-281: the outcomes of computeAdjustedTimecontrol for the string tc
\* and the factor f.
computeAdjustedTimecontrol(tc, f) ==
    IF Has(tc, "/") /\ Has(tc, "+")
    THEN LET moves == Split0(tc, "/")
             part == Split1(tc, "/")
         IN  IF TwoFloats(part)
             THEN {Returned(moves \o <<Slash, Num(start), Plus, Num(inc)>>) :
                     start \in Scaled(part[1].v, f), inc \in Scaled(part[3].v, f)}
             ELSE {ValueError}
    ELSE IF Has(tc, "/")
    THEN LET moves == Split0(tc, "/")
             part == Split1(tc, "/")
         IN  IF OneFloat(part)
             THEN {Returned(moves \o <<Slash, Num(start)>>) :
                     start \in Scaled(part[1].v, f)}
             ELSE {ValueError}
    ELSE IF TwoFloats(tc)
         THEN {Returned(<<Num(start), Plus, Num(inc)>>) :
                 start \in Scaled(tc[1].v, f), inc \in Scaled(tc[3].v, f)}
         ELSE {ValueError}

----------------------------------------------------------------------------
\* The runner's output lines and what processCutechess reads in them.

ScoreLine(t) == [text |-> "Score of", tokens |-> <<t[1], "-", t[2], "-", t[3]>>]
PlainLine(s) == [text |-> s, tokens |-> <<>>]

\* The tally after one more game won, lost or drawn.
AfterGame(t, k) == [t EXCEPT ![k] = t[k] + 1]

\* The lines the runner can print next: a game's end is followed by the
\* score-summary line with the cumulative tally (format at line 396).
RunnerLines ==
    {PlainLine("Started game") }
    \cup (IF totalC + totalT < MaxEvents
          THEN {PlainLine("disconnects"), PlainLine("connection stalls"),
                PlainLine("on time")}
          ELSE {})
    \cup (IF Sum3(score) < MaxGames
          THEN {ScoreLine(AfterGame(score, k)) : k \in 1..3}
          ELSE {})

\* Line 386.
IsCrashLine(line) == line.text \in {"disconnects", "connection stalls"}
\* Line 390.
IsTimelossLine(line) == line.text = "on time"
\* Line 394.
IsScoreLine(line) == line.text = "Score of"
\* Line 397: the tokens after the colon, every second one of the first five.
ParseScore(line) == <<line.tokens[1], line.tokens[3], line.tokens[5]>>

\* A report once REPORT_RATE or more games are unreported, instead of at every
\* REPORT_RATE-th game.
ShouldReportAtLeast(sc, snt) == Sum3(sc) - Sum3(snt) >= REPORT_RATE

\* Line 400.
ShouldReport(sc, snt) == (Sum3(sc) - Sum3(snt)) % REPORT_RATE = 0

\* The difference taken the wrong way round.
DeltaReversed(sc, snt) == [f \in 1..3 |-> snt[f] - sc[f]]

\* Line 403.
Delta(sc, snt) == [f \in 1..3 |-> sc[f] - snt[f]]

\* Lines 366-369: the server's text, or "Unable" when the POST raises.
reportResults(net) ==
    IF net \in {"exception", "reply lost"} THEN "Unable" ELSE net

\* Line 367: the server has the POST's data unless the exception came first.
Delivered(net) == net # "exception"

\* Line 407.
IsAbort(st) == Upper(st) = "STOP"

\* The comparison without upper(): "Unable" is then taken for an
\* acknowledgment.
IsAcknowledgedNoUpper(st) == st # "UNABLE"

\* Line 412.
IsAcknowledged(st) == Upper(st) # "UNABLE"

\* The counters are not reset with the acknowledgment.
AcknowledgeKeepCounters(sc, c, t) == [sent |-> sc, crashes |-> c, timelosses |-> t]

\* Lines 413-414: an acknowledged report resets the counters and advances sent
\* to (a copy of) the score.
Acknowledge(sc, c, t) == [sent |-> sc, crashes |-> 0, timelosses |-> 0]

\* Popen.kill (or taskkill) ends a running process; Popen.wait returns once
\* the process has ended and reaps it.
Kill(proc) == IF proc = "running" THEN "exited" ELSE proc
Wait(proc) == "reaped"

\* The pipe is closed without ending the process.
killCutechessCloseOnly(proc) == <<proc, FALSE>>

\* Lines 33-49: the process is killed (taskkill on Windows, kill on Linux),
\* waited on and its output pipe closed.  The result is <<cutechess,
\* stdoutOpen>>.
killCutechess(proc) == <<Wait(Kill(proc)), FALSE>>

----------------------------------------------------------------------------
\* The state after construction, and the values a workload's variables take
\* when no workload is in progress.

NoBench == [e \in Engines |-> 0]
NoNps == [e \in Engines |-> None]
NoLanes == [e \in Engines |-> <<>>]
NoFlags == [e \in Engines |-> FALSE]
NoShas == [e \in Engines |-> "a"]
NoCalls == [e \in Engines |-> "none"]

\* The worker before its first request: no workload, no process, no history.
Idle ==
    /\ exitCause = "none"
    /\ expected = NoBench
    /\ nps = NoNps
    /\ laneData = NoLanes
    /\ benchResult = NoLanes
    /\ notified = NoFlags
    /\ npsReported = FALSE
    /\ shas = NoShas
    /\ provided = NoCalls
    /\ binaries = {}
    /\ tmp = FALSE
    /\ fetches = [s \in Shas |-> 0]
    /\ builds = [s \in Shas |-> 0]
    /\ cutechess = "none"
    /\ stdoutOpen = FALSE
    /\ score = Zero3
    /\ sent = Zero3
    /\ crashes = 0
    /\ timelosses = 0
    /\ retval = "unset"
    /\ acked = Zero5
    /\ totalC = 0
    /\ totalT = 0
    /\ reported = <<>>
    /\ status = "none"
    /\ stopSeen = FALSE
    /\ ending = "none"
    /\ received = 0

\* No time control is being adjusted, no benchmark is running.
NoTimecontrol ==
    /\ timecontrol = <<>>
    /\ factor = <<1, 1>>
    /\ adjusted = None

NoBenchmark ==
    /\ mainAt = "start"
    /\ lane = [i \in 1..NumLanes |-> "new"]
    /\ outqueue = <<>>
    /\ sample = [i \in 1..NumLanes |-> None]
    /\ taken = None
    /\ benchOut = None

Init ==
    /\ pc = "poll"
    /\ Idle
    /\ NoTimecontrol
    /\ NoBenchmark

\* The frames of processWorkload and processCutechess are gone: their
\* variables, and the history kept about them, are back to the initial values.
ForgetBench ==
    /\ expected' = NoBench
    /\ nps' = NoNps
    /\ laneData' = NoLanes
    /\ benchResult' = NoLanes
    /\ notified' = NoFlags
    /\ npsReported' = FALSE
    /\ shas' = NoShas
    /\ provided' = NoCalls

ForgetStream ==
    /\ score' = Zero3
    /\ sent' = Zero3
    /\ crashes' = 0
    /\ timelosses' = 0
    /\ retval' = "unset"
    /\ acked' = Zero5
    /\ totalC' = 0
    /\ totalT' = 0
    /\ reported' = <<>>
    /\ status' = "none"
    /\ stopSeen' = FALSE
    /\ ending' = "none"
    /\ received' = 0

ForgetProcess ==
    /\ cutechess' = "none"
    /\ stdoutOpen' = FALSE

\* An exception leaves processWorkload for the handler of main (line 496).
Raise ==
    /\ pc' = "except"
    /\ UNCHANGED exitCause

----------------------------------------------------------------------------
\* main's loop and completeWorkload (lines 432-459, 493-498).

\* Lines 435-437, 451: the getWorkload POST raises, or its reply is no
\* literal; the exception reaches main.
PollError ==
    /\ pc = "poll"
    /\ Raise
    /\ UNCHANGED <<benchVars, procVars, streamVars, histVars>>
    /\ UNCHANGED <<fsVars, pureVars>>

\* Lines 440-443: the server has no work.
PollNoWork ==
    /\ pc = "poll"
    /\ pc' = "sleepNoWork"
    /\ UNCHANGED <<exitCause, benchVars, procVars, streamVars, histVars>>
    /\ UNCHANGED <<fsVars, pureVars>>

\* Line 442: time.sleep(WORKLOAD_TIMEOUT) ends, completeWorkload returns.
WakeNoWork ==
    /\ pc = "sleepNoWork"
    /\ pc' = "poll"
    /\ UNCHANGED <<exitCause, benchVars, procVars, streamVars, histVars>>
    /\ UNCHANGED <<fsVars, pureVars>>

\* Lines 446-448: 'Bad Credentials' ends the worker.
PollBadCredentials ==
    /\ pc = "poll"
    /\ pc' = "exited"
    /\ exitCause' = "BadCredentials"
    /\ UNCHANGED <<benchVars, procVars, streamVars, histVars>>
    /\ UNCHANGED <<fsVars, pureVars>>

\* Lines 451-459: a workload arrives; processWorkload starts.
PollWorkload ==
    /\ pc = "poll"
    /\ \E w \in [Engines -> ExpectedBenches] : expected' = w
    /\ pc' = "verifyBook"
    /\ UNCHANGED <<exitCause, nps, laneData, benchResult, notified, provided,
                   npsReported, shas, fsVars, procVars, streamVars, histVars,
                   pureVars>>

\* Lines 496-498: the handler prints the error and sleeps ERROR_TIMEOUT; the
\* loop polls again.
HandleException ==
    /\ pc = "except"
    /\ pc' = "poll"
    /\ ForgetBench
    /\ ForgetStream
    /\ UNCHANGED <<exitCause, procVars>>
    /\ UNCHANGED <<fsVars, pureVars>>

\* The operator interrupts the worker (KeyboardInterrupt is no Exception).
Interrupt ==
    /\ pc # "exited"
    /\ pc' = "exited"
    /\ exitCause' = "KeyboardInterrupt"
    /\ ForgetBench
    /\ ForgetStream
    /\ ForgetProcess
    /\ UNCHANGED <<fsVars, pureVars>>

----------------------------------------------------------------------------
\* processWorkload (lines 416-430).

\* Lines 419, 284-303: the opening book is present, or fetched, and its hash
\* is the declared one.
BookVerified ==
    /\ pc = "verifyBook"
    /\ pc' = "verifyDev"
    /\ UNCHANGED <<exitCause, benchVars, procVars, streamVars, histVars>>
    /\ UNCHANGED <<fsVars, pureVars>>

\* Lines 419-420: the hash differs; sys.exit() raises SystemExit, which is no
\* Exception, so the handler of main does not catch it.
BookMismatch ==
    /\ pc = "verifyBook"
    /\ pc' = "exited"
    /\ exitCause' = "SystemExit"
    /\ ForgetBench
    /\ UNCHANGED <<procVars, streamVars, histVars>>
    /\ UNCHANGED <<fsVars, pureVars>>

\* Lines 286-294: fetching, unzipping or opening the book raises.
BookError ==
    /\ pc = "verifyBook"
    /\ Raise
    /\ UNCHANGED <<benchVars, procVars, streamVars, histVars>>
    /\ UNCHANGED <<fsVars, pureVars>>

\* Lines 424-425, 305-321: verifyEngine for dev, then for base.  The lanes'
\* samples are what the benchmark processes put on the queue; the wrongBench
\* POST of reportWrongBenchmark (lines 324-337) raises when the server cannot
\* be reached.
VerifyEngine ==
    /\ pc \in {"verifyDev", "verifyBase"}
    /\ \E data \in [1..NumLanes -> LaneSamples], net \in {"ok", "exception"} :
         LET e == IF pc = "verifyDev" THEN "dev" ELSE "base"
             v == verifyEngine(data, expected[e])
         IN  /\ laneData' = [laneData EXCEPT ![e] = data]
             /\ benchResult' = [benchResult EXCEPT ![e] = v.result]
             /\ notified' = [notified EXCEPT ![e] = v.wrong]
             /\ IF v.wrong /\ net = "exception"
                THEN /\ Raise
                     /\ UNCHANGED <<expected, nps>>
                ELSE /\ nps' = [nps EXCEPT ![e] = v.nps]
                     /\ pc' = IF pc = "verifyDev" THEN "verifyBase" ELSE "check"
                     /\ UNCHANGED <<exitCause, expected>>
    /\ UNCHANGED <<npsReported, shas, provided, fsVars, procVars, streamVars,
                   histVars, pureVars>>

\* Line 426: an engine without a valid bench ends the workload.
SkipWorkload ==
    /\ pc = "check"
    /\ nps["dev"] = None \/ nps["base"] = None
    /\ pc' = "poll"
    /\ ForgetBench
    /\ UNCHANGED <<exitCause, procVars, streamVars, histVars>>
    /\ UNCHANGED <<fsVars, pureVars>>

\* Lines 428, 152, 257-259: computeAdjustedTimecontrol divides by the average
\* nps (ZeroDivisionError when it is 0) and makes the submitNPS POST, which
\* raises when the server cannot be reached.
LaunchRaises ==
    /\ pc = "check"
    /\ nps["dev"] # None /\ nps["base"] # None
    /\ \E net \in {"ok", "exception"} :
         AverageNps(nps["dev"], nps["base"])[1] = 0 \/ net = "exception"
    /\ Raise
    /\ UNCHANGED <<benchVars, procVars, streamVars, histVars>>
    /\ UNCHANGED <<fsVars, pureVars>>

\* Lines 428-429: the time control is adjusted, which makes the submitNPS POST
\* (line 259); the command is built and the match process started.
Launch ==
    /\ pc = "check"
    /\ nps["dev"] # None /\ nps["base"] # None
    /\ AverageNps(nps["dev"], nps["base"])[1] # 0
    /\ pc' = "started"
    /\ npsReported' = TRUE
    /\ cutechess' = "running"
    /\ stdoutOpen' = TRUE
    /\ UNCHANGED <<exitCause, expected, nps, laneData, benchResult, notified,
                   shas, provided, streamVars, histVars>>
    /\ UNCHANGED <<fsVars, pureVars>>

\* Lines 375-376: processCutechess begins.  The workload's bench data is not
\* read again.
StartProcessing ==
    /\ pc = "started"
    /\ pc' = "Running"
    /\ score' = Zero3
    /\ sent' = Zero3
    /\ crashes' = 0
    /\ timelosses' = 0
    /\ ForgetBench
    /\ UNCHANGED <<exitCause, procVars, retval, histVars>>
    /\ UNCHANGED <<fsVars, pureVars>>

----------------------------------------------------------------------------
\* processCutechess (lines 372-414).

\* Lines 381-414: one line of the runner's output is read and processed; a
\* report, when one is due, is part of the step.
ReadLineOn(nets) ==
    /\ pc = "Running"
    /\ \E line \in RunnerLines, net \in nets :
         LET crashes1 == IF IsCrashLine(line) THEN crashes + 1 ELSE crashes
             timelosses1 == IF IsTimelossLine(line) THEN timelosses + 1
                            ELSE timelosses
             score1 == IF IsScoreLine(line) THEN ParseScore(line) ELSE score
             reporting == IsScoreLine(line) /\ ShouldReport(score1, sent)
             WLD == Delta(score1, sent)
             report == <<WLD[1], WLD[2], WLD[3], crashes1, timelosses1>>
             reply == reportResults(net)
             stop == reporting /\ IsAbort(reply)
             ack == reporting /\ ~stop /\ IsAcknowledged(reply)
             after == IF ack THEN Acknowledge(score1, crashes1, timelosses1)
                      ELSE [sent |-> sent, crashes |-> crashes1,
                            timelosses |-> timelosses1]
         IN  /\ score' = score1
             /\ crashes' = after.crashes
             /\ timelosses' = after.timelosses
             /\ sent' = after.sent
             /\ IF stop
                THEN /\ cutechess' = killCutechess(cutechess)[1]
                     /\ stdoutOpen' = killCutechess(cutechess)[2]
                     /\ pc' = "Aborted"
                     /\ retval' = None
                ELSE UNCHANGED <<pc, cutechess, stdoutOpen, retval>>
             /\ totalC' = IF IsCrashLine(line) THEN totalC + 1 ELSE totalC
             /\ totalT' = IF IsTimelossLine(line) THEN totalT + 1 ELSE totalT
             /\ acked' = IF ack THEN Add5(acked, report) ELSE acked
             /\ reported' = IF reporting THEN report ELSE <<>>
             /\ status' = IF reporting THEN reply ELSE "none"
             /\ stopSeen' = (stopSeen \/ stop)
             /\ received' = IF reporting /\ Delivered(net)
                            THEN received + Sum3(WLD) ELSE received
    /\ UNCHANGED <<exitCause, benchVars, ending>>
    /\ UNCHANGED <<fsVars, pureVars>>

ReadLine == ReadLineOn(NetOutcomes)

\* The same with a network that can lose the reply to a delivered POST.
ReadLineLossy == ReadLineOn(LossyOutcomes)

\* Lines 381-383: the runner has closed its output; readline gives the empty
\* string, the process is waited on and processCutechess returns (None).
ReadEndOfStream ==
    /\ pc = "Running"
    /\ cutechess' = Wait(cutechess)
    /\ pc' = "Closed"
    /\ retval' = None
    /\ reported' = <<>>
    /\ status' = "none"
    /\ ending' = "eof"
    /\ UNCHANGED <<exitCause, benchVars, stdoutOpen, score, sent, crashes,
                   timelosses, acked, totalC, totalT, stopSeen, received>>
    /\ UNCHANGED <<fsVars, pureVars>>

\* Lines 381-383: the runner prints an empty line, or one of white space.
\* After strip() it is the empty string, as at the end of the output: the
\* process is waited on and processCutechess returns (None) with the runner's
\* later lines unread.
ReadBlankLine ==
    /\ pc = "Running"
    /\ cutechess' = Wait(cutechess)
    /\ pc' = "Closed"
    /\ retval' = None
    /\ reported' = <<>>
    /\ status' = "none"
    /\ ending' = "blank"
    /\ UNCHANGED <<exitCause, benchVars, stdoutOpen, score, sent, crashes,
                   timelosses, acked, totalC, totalT, stopSeen, received>>
    /\ UNCHANGED <<fsVars, pureVars>>

\* Lines 381 and 397: decode('ascii') raises UnicodeDecodeError, or the
\* parsing of a score line raises ValueError.  The exception leaves
\* processCutechess and processWorkload with their variables; nothing kills
\* or waits on the match process.
ReadBadLine ==
    /\ pc = "Running"
    /\ \E line \in BadLines : ending' = line
    /\ Raise
    /\ score' = Zero3
    /\ sent' = Zero3
    /\ crashes' = 0
    /\ timelosses' = 0
    /\ retval' = "unset"
    /\ acked' = Zero5
    /\ totalC' = 0
    /\ totalT' = 0
    /\ reported' = <<>>
    /\ status' = "none"
    /\ stopSeen' = FALSE
    /\ received' = 0
    /\ UNCHANGED <<benchVars, procVars, fsVars, pureVars>>

\* Line 430 and line 459: processCutechess, processWorkload and
\* completeWorkload return; the loop of main polls again.
WorkloadDone ==
    /\ pc \in {"Closed", "Aborted"}
    /\ pc' = "poll"
    /\ ForgetStream
    /\ ForgetProcess
    /\ UNCHANGED <<exitCause, benchVars>>
    /\ UNCHANGED <<fsVars, pureVars>>

----------------------------------------------------------------------------
Next ==
    \/ PollError
    \/ PollNoWork
    \/ WakeNoWork
    \/ PollBadCredentials
    \/ PollWorkload
    \/ HandleException
    \/ Interrupt
    \/ BookVerified
    \/ BookMismatch
    \/ BookError
    \/ VerifyEngine
    \/ SkipWorkload
    \/ LaunchRaises
    \/ Launch
    \/ StartProcessing
    \/ ReadLine
    \/ ReadEndOfStream
    \/ ReadBadLine
    \/ WorkloadDone

Spec == Init /\ [][Next]_vars

----------------------------------------------------------------------------
\* The same worker when the runner can print empty lines and the network can
\* lose the reply to a POST it has delivered.
NextLossy ==
    \/ PollError
    \/ PollNoWork
    \/ WakeNoWork
    \/ PollBadCredentials
    \/ PollWorkload
    \/ HandleException
    \/ Interrupt
    \/ BookVerified
    \/ BookMismatch
    \/ BookError
    \/ VerifyEngine
    \/ SkipWorkload
    \/ LaunchRaises
    \/ Launch
    \/ StartProcessing
    \/ ReadLineLossy
    \/ ReadEndOfStream
    \/ ReadBlankLine
    \/ ReadBadLine
    \/ WorkloadDone

SpecLossy == Init /\ [][NextLossy]_vars

----------------------------------------------------------------------------
\* The loop with the Engines directory and the scratch directory: verifyEngine
\* with its call of getEngine, and the match taken as a whole.

\* Lines 311-321 for engine e of commit sha, with bins the binaries of
\* Engines.  The histories of the benchmark are left alone here.
Benchmark(e, sha, bins) ==
    \E data \in LaneOutputs(sha, bins), net \in {"ok", "exception"} :
        LET v == verifyEngine(data, expected[e])
        IN  /\ IF v.wrong /\ net = "exception"
               THEN /\ Raise
                    /\ UNCHANGED nps
               ELSE /\ nps' = [nps EXCEPT ![e] = v.nps]
                    /\ pc' = IF pc = "verifyDev" THEN "verifyBase" ELSE "check"
                    /\ UNCHANGED exitCause
            /\ UNCHANGED <<laneData, benchResult, notified>>

\* Lines 424-425, 305-321: verifyEngine for dev, then for base, from the cache
\* check of line 308 to the returned nps.  The engine's commit hash is read
\* here, and is whatever the workload has for it.
VerifyEngineOnDisk ==
    /\ pc \in {"verifyDev", "verifyBase"}
    /\ \E sha \in Shas :
         LET e == IF pc = "verifyDev" THEN "dev" ELSE "base"
         IN  /\ shas' = [shas EXCEPT ![e] = sha]
             /\ IF NeedsEngine(sha)
                THEN /\ fetches[sha] < MaxFetches
                     /\ \E out \in GetEngineOutcomes :
                          LET g == getEngine(sha, out)
                          IN  /\ binaries' = g.binaries
                              /\ tmp' = g.tmp
                              /\ fetches' = g.fetches
                              /\ builds' = g.builds
                              /\ provided' = [provided EXCEPT ![e] = out]
                              /\ IF g.raised
                                 THEN /\ Raise
                                      /\ UNCHANGED <<nps, laneData,
                                                     benchResult, notified>>
                                 ELSE Benchmark(e, sha, g.binaries)
                ELSE /\ provided' = [provided EXCEPT ![e] = "cached"]
                     /\ UNCHANGED fsVars
                     /\ Benchmark(e, sha, binaries)
    /\ UNCHANGED <<expected, npsReported, procVars, streamVars, histVars,
                   pureVars>>

\* Lines 430, 372-414: processCutechess reads the match to its end, and
\* completeWorkload returns to the loop of main.
MatchOver ==
    /\ pc = "started"
    /\ pc' = "poll"
    /\ ForgetBench
    /\ ForgetProcess
    /\ UNCHANGED <<exitCause, fsVars, streamVars, histVars, pureVars>>

NextProv ==
    \/ PollError
    \/ PollNoWork
    \/ WakeNoWork
    \/ PollBadCredentials
    \/ PollWorkload
    \/ HandleException
    \/ Interrupt
    \/ BookVerified
    \/ BookMismatch
    \/ BookError
    \/ VerifyEngineOnDisk
    \/ SkipWorkload
    \/ LaunchRaises
    \/ Launch
    \/ MatchOver

SpecProv == Init /\ [][NextProv]_vars

----------------------------------------------------------------------------
\* What the claims speak of.

\* The replies the worker takes for the abort sentinel (whatever their case).
AbortTexts == {"STOP", "Stop"}

\* A step of processCutechess that read a line (and did not leave by an
\* interrupt).
LineStep == pc = "Running" /\ pc' \in {"Running", "Aborted"}

\* The cumulative tally: wins, losses, draws of the last score line, and the
\* crash and loss-on-time lines read.
Cumulative == <<score[1], score[2], score[3], totalC, totalT>>

\* What is cumulative after the step and was not acknowledged before it.
Unacknowledged == [i \in 1..5 |-> Cumulative'[i] - acked[i]]

\* The lanes of engine e reported one bench count.
Consensus(e) ==
    \A i, j \in 1..Len(laneData[e]) : laneData[e][i][1] = laneData[e][j][1]

\* C1: when processCutechess has returned at the end of the stream, the sum of
\* the acknowledged deltas is the final cumulative tally (wins, losses, draws,
\* crashes, time losses): nothing accumulated was dropped unreported.
C1_DeltaAccounting == pc = "Closed" => acked = Cumulative

\* C2: a report answered 'Unable' leaves sent and the crash and time-loss
\* counters as they were and processCutechess keeps running; and every report
\* carries all that is cumulative and was not acknowledged before: the score
\* minus the unchanged sent, with the crashes and time losses since the last
\* acknowledged report.
C2_UnableKeepsDelta ==
    [][LineStep =>
        /\ status' = "Unable" =>
             /\ sent' = sent
             /\ crashes' = crashes
             /\ timelosses' = timelosses
             /\ pc' = "Running"
        /\ reported' # <<>> =>
             /\ reported' = Unacknowledged
             /\ \A i \in 1..3 : reported'[i] = score'[i] - sent[i]]_vars

\* C2's case: the report at 5 games was answered 'Unable', a crash and a time
\* loss were read, and the report at 10 games carried all 10 games with them.
C2_Witness ==
    /\ pc = "Running"
    /\ reported # <<>>
    /\ Sum3(score) = 2 * REPORT_RATE
    /\ Sum3(<<reported[1], reported[2], reported[3]>>) = 2 * REPORT_RATE
    /\ reported[4] = 1
    /\ reported[5] = 1

\* C3: a report answered with anything but the abort sentinel or 'Unable'
\* makes sent the cumulative win/loss/draw tally and the two counters zero, and
\* a report never carries what an earlier report got acknowledged; the first
\* report, at 3 wins, 1 loss, 1 draw and no crash or time loss, carries
\* <<3, 1, 1, 0, 0>> and, acknowledged, leaves sent = <<3, 1, 1>>.
C3_AcknowledgedAdvances ==
    [][LineStep =>
        /\ (reported' # <<>> /\ status' \notin AbortTexts \cup {"Unable"}) =>
             /\ sent' = score'
             /\ crashes' = 0
             /\ timelosses' = 0
             /\ acked' = Cumulative'
        /\ reported' # <<>> =>
             \A i \in 1..5 : reported'[i] + acked[i] = Cumulative'[i]
        /\ (score # score' /\ Cumulative' = <<3, 1, 1, 0, 0>>) =>
             /\ reported' = <<3, 1, 1, 0, 0>>
             /\ status' = "OK" => sent' = <<3, 1, 1>>]_vars

\* C3's case: the first report, of <<3, 1, 1, 0, 0>>, was acknowledged.
C3_Witness ==
    /\ pc = "Running"
    /\ reported = <<3, 1, 1, 0, 0>>
    /\ status = "OK"
    /\ sent = <<3, 1, 1>>
    /\ crashes = 0

\* C4: sent never exceeds the cumulative score in any component, and no
\* delta passed to reportResults has a negative component.
C4_SentBelowScore ==
    /\ \A f \in 1..3 : sent[f] <= score[f]
    /\ reported # <<>> => \A i \in 1..5 : reported[i] >= 0

\* C4's case: a report was acknowledged, games went on, and a later report
\* was made.
C4_Witness ==
    /\ reported # <<>>
    /\ Sum3(score) = 2 * REPORT_RATE
    /\ Sum3(<<reported[1], reported[2], reported[3]>>) = REPORT_RATE
    /\ status = "Unable"
    /\ Sum3(sent) = REPORT_RATE

C6_ReportingRule ==
    [][/\ reported' # <<>> =>
             /\ LineStep
             /\ score' # score
             /\ Sum3(score') % REPORT_RATE = 0
             /\ reported' = <<score'[1] - sent[1], score'[2] - sent[2],
                              score'[3] - sent[3],
                              totalC' - acked[4], totalT' - acked[5]>>
       /\ (LineStep /\ score' # score /\ Sum3(score') % REPORT_RATE = 0) =>
             reported' # <<>>]_vars

\* C6's case: the second report of a workload, made at 10 games after the
\* first was acknowledged at 5.
C6_Witness ==
    /\ reported # <<>>
    /\ Sum3(score) = 2 * REPORT_RATE
    /\ Sum3(<<reported[1], reported[2], reported[3]>>) = REPORT_RATE
    /\ status = "OK"
    /\ acked = Cumulative

\* C7: at the end of the stream processCutechess has waited for the match
\* process, closed its output pipe and returned the final tally.
C7_ClosedReleases ==
    pc = "Closed" =>
        /\ cutechess = "reaped"
        /\ ~stdoutOpen
        /\ retval = Cumulative

\* C8: the worker process ends only on 'Bad Credentials' or an operator
\* interrupt.
C8_ExitOnlyOnCredentials ==
    pc = "exited" => exitCause \in {"BadCredentials", "KeyboardInterrupt"}

\* C9: the match process is started only when each engine's lanes reached
\* consensus and the benchmark result is the engine's declared bench count.
C9_LaunchOnlyVerified ==
    pc = "started" =>
        \A e \in Engines : Consensus(e) /\ benchResult[e][1] = expected[e]

\* C10: lanes of an engine that disagree give (0, 0) and a wrongBench
\* notification; lanes that agree give their bench count and the mean of
\* their nodes-per-second.
C10_ConsensusRule ==
    \A e \in Engines :
        laneData[e] # <<>> =>
            IF Consensus(e)
            THEN /\ benchResult[e][1] = laneData[e][1][1]
                 /\ benchResult[e][2][2] > 0
                 /\ benchResult[e][2][1] * Len(laneData[e])
                      = SumSeq([i \in 1..Len(laneData[e]) |-> laneData[e][i][2]])
                          * benchResult[e][2][2]
            ELSE /\ benchResult[e] = <<0, <<0, 1>>>>
                 /\ notified[e]

----------------------------------------------------------------------------
\* computeMultiThreadedBenchmark with its lanes as processes of their own
\* (lines 216-252, 195-214).

InitBenchmark ==
    /\ pc = "benchmark"
    /\ Idle
    /\ NoTimecontrol
    /\ NoBenchmark

\* The lanes started so far, and those joined so far.
Started == {i \in 1..NumLanes : lane[i] # "new"}
Joined == IF mainAt = "join"
          THEN {i \in 1..NumLanes : \A j \in 1..i : lane[j] = "exited"}
          ELSE IF mainAt = "start" THEN {} ELSE 1..NumLanes

\* Lines 233-234: process.start() for the next process of the list.
StartLane ==
    /\ mainAt = "start"
    /\ LET i == Cardinality(Started) + 1
       IN  /\ lane' = [lane EXCEPT ![i] = "running"]
           /\ mainAt' = IF i = NumLanes THEN "join" ELSE "start"
    /\ UNCHANGED <<outqueue, sample, taken, benchOut>>
    /\ UNCHANGED <<mainVars, benchVars, fsVars, procVars, streamVars, histVars,
                   tcVars>>

\* Lines 197-214: lane i puts its one sample on the queue: the bench and nps
\* it has read, or (0, 0) from the except branch when the engine could not be
\* started or its output not be read.
LanePuts(i) ==
    /\ lane[i] = "running"
    /\ \E s \in LaneSamples :
         /\ outqueue' = Append(outqueue, s)
         /\ sample' = [sample EXCEPT ![i] = s]
    /\ lane' = [lane EXCEPT ![i] = "put"]
    /\ UNCHANGED <<mainAt, taken, benchOut>>
    /\ UNCHANGED <<mainVars, benchVars, fsVars, procVars, streamVars, histVars,
                   tcVars>>

\* computeSingleThreadedBenchmark returns and the process of lane i ends.
LaneExits(i) ==
    /\ lane[i] = "put"
    /\ lane' = [lane EXCEPT ![i] = "exited"]
    /\ UNCHANGED <<mainAt, outqueue, sample, taken, benchOut>>
    /\ UNCHANGED <<mainVars, benchVars, fsVars, procVars, streamVars, histVars,
                   tcVars>>

\* Lines 237-238: process.join() has returned for every process of the list,
\* in the list's order.
JoinLanes ==
    /\ mainAt = "join"
    /\ Joined = 1..NumLanes
    /\ mainAt' = "get"
    /\ UNCHANGED <<lane, outqueue, sample, taken, benchOut>>
    /\ UNCHANGED <<mainVars, benchVars, fsVars, procVars, streamVars, histVars,
                   tcVars>>

\* Lines 241-252: outqueue.get() once per lane, which waits for a sample to
\* be there; then the benches are compared and the nps averaged.
Collect ==
    /\ mainAt = "get"
    /\ Len(outqueue) >= NumLanes
    /\ taken' = SubSeq(outqueue, 1, NumLanes)
    /\ outqueue' = SubSeq(outqueue, NumLanes + 1, Len(outqueue))
    /\ benchOut' = computeMultiThreadedBenchmark(SubSeq(outqueue, 1, NumLanes))
    /\ mainAt' = "done"
    /\ UNCHANGED <<lane, sample>>
    /\ UNCHANGED <<mainVars, benchVars, fsVars, procVars, streamVars, histVars,
                   tcVars>>

NextBenchmark ==
    \/ StartLane
    \/ \E i \in 1..NumLanes : LanePuts(i)
    \/ \E i \in 1..NumLanes : LaneExits(i)
    \/ JoinLanes
    \/ Collect

SpecBenchmark == InitBenchmark /\ [][NextBenchmark]_vars

----------------------------------------------------------------------------
\* computeAdjustedTimecontrol on every time control and factor.

InitTimecontrol ==
    /\ pc = "scale"
    /\ Idle
    /\ NoBenchmark
    /\ timecontrol \in Timecontrols
    /\ factor \in Factors
    /\ adjusted = None

\* Line 428: processWorkload calls computeAdjustedTimecontrol; a ValueError
\* leaves processWorkload for the handler of main.
AdjustTimecontrol ==
    /\ pc = "scale"
    /\ \E r \in computeAdjustedTimecontrol(timecontrol, factor) :
         IF r.raised
         THEN /\ Raise
              /\ UNCHANGED adjusted
         ELSE /\ pc' = "scaled"
              /\ adjusted' = r.tc
              /\ UNCHANGED exitCause
    /\ UNCHANGED <<timecontrol, factor, laneVars, benchVars, fsVars, procVars,
                   streamVars, histVars>>

NextTimecontrol ==
    \/ AdjustTimecontrol
    \/ HandleException

SpecTimecontrol == InitTimecontrol /\ [][NextTimecontrol]_vars

----------------------------------------------------------------------------
\* C11: whatever sequence of verifyEngine and getEngine calls is made for one
\* commit hash, its archive is downloaded at most once and make runs for it
\* at most once.
C11_WorkAtMostOnce ==
    \A s \in Shas : fetches[s] <= 1 /\ builds[s] <= 1

\* C11, as the code has it: once the binary of a commit exists in Engines, no
\* step downloads or builds that commit again, and the binary stays.
C11_CachedBinaryKept ==
    [][\A s \in binaries :
          /\ fetches'[s] = fetches[s]
          /\ builds'[s] = builds[s]
          /\ s \in binaries']_vars

\* verifyEngine found the binary of its commit in Engines, built by an earlier
\* call.
C11_Witness ==
    \E e \in Engines :
        /\ provided[e] = "cached"
        /\ fetches[shas[e]] = 1
        /\ shas[e] \in binaries

\* C12: a workload for which make left neither expected output for an engine,
\* so that the engine has no binary, is skipped: no match is launched for it,
\* and the worker does not exit over it.
C12_NoBinarySkips ==
    (\E e \in Engines : provided[e] = "no binary" /\ shas[e] \notin binaries) =>
        /\ pc # "started"
        /\ cutechess # "running"
        /\ pc # "exited" \/ exitCause # "SystemExit"

\* The three grammars: moves/start+inc, moves/start, start+inc, every field a
\* number.
IsMovesStartInc(tc) ==
    /\ Len(tc) = 5 /\ tc[2].k = "/" /\ tc[4].k = "+"
    /\ tc[1].k = "num" /\ tc[3].k = "num" /\ tc[5].k = "num"
IsMovesStart(tc) ==
    Len(tc) = 3 /\ tc[2].k = "/" /\ tc[1].k = "num" /\ tc[3].k = "num"
IsStartInc(tc) ==
    Len(tc) = 3 /\ tc[2].k = "+" /\ tc[1].k = "num" /\ tc[3].k = "num"
ValidTimecontrol(tc) == IsMovesStartInc(tc) \/ IsMovesStart(tc) \/ IsStartInc(tc)

Abs(x) == IF x < 0 THEN 0 - x ELSE x

\* out is a whole number of hundredths, and none is nearer to v * f.
RoundedProduct(out, v, f) ==
    /\ out % 10 = 0
    /\ 2 * Abs((out \div 10) * (10 * f[2]) - v * f[1]) <= 10 * f[2]

\* Field by field: b has the shape of a, and its numbers are those of a
\* multiplied by f and rounded to 2 decimal places.
ScaledFields(a, b, f) ==
    /\ Len(b) = Len(a)
    /\ \A i \in 1..Len(a) :
         /\ b[i].k = a[i].k
         /\ a[i].k = "num" => RoundedProduct(b[i].v, a[i].v, f)

\* What the function reads of its input: the text before the first '/', kept
\* as it is, and the text from there to a second '/' or to the end.
MovesPart(tc) == IF Has(tc, "/") THEN Split0(tc, "/") \o <<Slash>> ELSE <<>>
TimePart(tc) == IF Has(tc, "/") THEN Split1(tc, "/") ELSE tc
Readable(tc) ==
    IF Has(tc, "+") THEN TwoFloats(TimePart(tc))
                    ELSE Has(tc, "/") /\ OneFloat(TimePart(tc))

\* C13: computeAdjustedTimecontrol recognizes exactly the three grammars.  A
\* valid time control comes back in its grammar, the moves field unchanged,
\* start and inc multiplied by the factor and rounded to 2 decimal places, and
\* with factor 1 numerically unchanged; every other input is an error that
\* ends the workload and nothing else.
C13_ExactlyThreeGrammars ==
    pc # "scale" =>
        IF ValidTimecontrol(timecontrol)
        THEN /\ pc = "scaled"
             /\ MovesPart(adjusted) = MovesPart(timecontrol)
             /\ ScaledFields(TimePart(timecontrol), TimePart(adjusted), factor)
             /\ factor[1] = factor[2] =>
                    \A i \in 1..Len(timecontrol) : adjusted[i].v = timecontrol[i].v
        ELSE /\ pc \in {"except", "poll"}
             /\ adjusted = None
             /\ exitCause = "none"

\* C13, as the code has it.  The function scales what it reads: the text
\* before the first '/' is kept unread, the text after a second '/' is
\* dropped, and between them start, or start+inc when the input has a '+',
\* must be numbers; they are multiplied by the factor and rounded to 2
\* decimal places, so that factor 1 leaves them unchanged when they have at
\* most 2 decimal places.  Every valid time control is read whole.  Anything
\* else raises, which ends the workload and nothing else.
C13_ScalesWhatItReads ==
    pc # "scale" =>
        /\ ValidTimecontrol(timecontrol) =>
              /\ Readable(timecontrol)
              /\ MovesPart(timecontrol) \o TimePart(timecontrol) = timecontrol
        /\ IF Readable(timecontrol)
           THEN /\ pc = "scaled"
                /\ MovesPart(adjusted) = MovesPart(timecontrol)
                /\ ScaledFields(TimePart(timecontrol), TimePart(adjusted), factor)
                /\ Len(adjusted) = Len(MovesPart(timecontrol))
                                     + Len(TimePart(timecontrol))
                /\ factor[1] = factor[2] =>
                      \A i \in 1..Len(TimePart(timecontrol)) :
                          TimePart(timecontrol)[i].v % 10 = 0 =>
                              TimePart(adjusted)[i] = TimePart(timecontrol)[i]
           ELSE /\ pc \in {"except", "poll"}
                /\ adjusted = None
                /\ exitCause = "none"

\* "40/60+0.5" with factor 2 has become "40/120.0+1.0".
C13_Witness ==
    /\ timecontrol = <<Num(40000), Slash, Num(60000), Plus, Num(500)>>
    /\ factor = <<2, 1>>
    /\ adjusted = <<Num(40000), Slash, Num(120000), Plus, Num(1000)>>

\* C14: workloads are processed one after the other.  While the worker asks
\* for a workload, or prepares one, no match process of an earlier workload is
\* running: that process was drained or aborted first.  And a match is
\* launched only with both engines validated and the measured speed reported.
C14_OneWorkloadInFlight ==
    /\ pc \in {"poll", "sleepNoWork", "verifyBook", "verifyDev", "verifyBase",
                "check"} => cutechess # "running"
    /\ pc = "started" =>
          /\ nps["dev"] # None /\ nps["base"] # None
          /\ npsReported

\* The samples of seq in another order.
IsPermutation(seq, f) ==
    /\ Len(seq) = NumLanes
    /\ \E p \in [1..NumLanes -> 1..NumLanes] :
         /\ \A i, j \in 1..NumLanes : p[i] = p[j] => i = j
         /\ \A i \in 1..NumLanes : seq[i] = f[p[i]]

\* C15: in whatever order the lanes finish or fail, the benchmark is
\* aggregated only after every lane has finished, from exactly one sample of
\* each lane, (0, 0) for a lane that failed, and the result is the one the
\* samples give in the lanes' own order.
C15_OneSamplePerLane ==
    /\ Len(outqueue) <= NumLanes
    /\ \A i \in 1..NumLanes : (sample[i] # None) <=> (lane[i] \in {"put", "exited"})
    /\ mainAt \in {"get", "done"} => \A i \in 1..NumLanes : lane[i] = "exited"
    /\ mainAt = "done" =>
          /\ IsPermutation(taken, sample)
          /\ outqueue = <<>>
          /\ benchOut = computeMultiThreadedBenchmark(sample)

\* The lane started first failed and put its (0, 0) last; the benchmark was
\* aggregated all the same, from that sample and the siblings'.
C15_Witness ==
    /\ mainAt = "done"
    /\ sample[1] = <<0, 0>>
    /\ taken[NumLanes] = <<0, 0>>
    /\ \E i \in 2..NumLanes : sample[i] # <<0, 0>>
    /\ taken # sample

\* C16: a line of the runner that is none of the recognized shapes is
\* ignored.  The step that reads it leaves the tally, sent and the counters as
\* they are, sends no report, and processCutechess goes on reading.
C16_UnrecognizedIgnored ==
    [][(pc = "Running" /\ ending' \in BadLines) =>
          /\ pc' = "Running"
          /\ UNCHANGED <<score, sent, crashes, timelosses>>
          /\ reported' = <<>>]_vars

\* C17: once getEngine has ended for an engine of the workload, however it
\* ended, the scratch directory tmp does not exist.
C17_ScratchRemoved ==
    (\E e \in Engines : provided[e] \in GetEngineOutcomes) => ~tmp

\* C18: processCutechess stops reading, as at the end of the output, only
\* when the runner has closed its output; an empty line or one of white space
\* does not end the reading.
C18_ClosedOnlyAtEnd ==
    pc = "Closed" => ending = "eof"

\* C19: when processWorkload has ended, by the end of the output, by an abort
\* or by an exception, the match process it started is not running any more.
C19_NoOrphan ==
    pc \in {"Closed", "Aborted", "except"} => cutechess # "running"

\* C20: every game result is in at most one report the server has received,
\* also when the reply to a delivered POST is lost: the game results the
\* server has received are never more than the games the runner has scored.
C20_AtMostOnce ==
    received <= Sum3(score)

====
